---- MODULE Spec2Model ----
(***************************************************************************)
(* Rueckwand preview builder: the plate list kept by App.jsx and the       *)
(* cm -> px scaling and motif compositing of MultiPlatePreview.jsx.        *)
(*                                                                         *)
(* Numbers are exact rationals <<n, d>> with d > 0 in lowest terms, plus    *)
(* the IEEE special values: <<0, 0>> is NaN (also a value that Number()     *)
(* turns into NaN: absent, non-numeric), <<1, 0>> is +Infinity and          *)
(* <<-1, 0>> is -Infinity.  Floating-point rounding of the divisions is     *)
(* not modelled: every finite quotient is the exact one.                   *)
(***************************************************************************)
EXTENDS Integers, Sequences, FiniteSets, TLC

VARIABLES
    HEIGHT_MAX,     \* constants/limits.js HEIGHT_MAX (cm), fixed for a run
    plates,         \* App state `plates` / MultiPlatePreview prop `plates`
    mounted,        \* boxRef.current is a DOM node
    clientWidth,    \* boxRef.current.clientWidth  (px)
    clientHeight,   \* boxRef.current.clientHeight (px)
    scaleX,         \* useState(1)
    scaleY,         \* useState(1)
    rafPending,     \* the requestAnimationFrame callbacks not yet run or cancelled
    rafId,          \* `let rafId` of the live effect instance (0: undefined)
    effectT,        \* totalWidthCm captured by the closures of the live effect instance
    computed,       \* history: what the last run of compute() measured
    frameH,         \* frameDims.frameH as the useMemo holds it (px)
    storage,        \* localStorage: [primary, legacy]
    nextId,         \* crypto.randomUUID(): the next fresh id
    everIds,        \* history: every id a plate of the list ever had
    ops,            \* number of user operations so far (bounded)
    lastOp,         \* history: the handler that ran last
    isArray,        \* Array.isArray(plates) of the plates prop (plates is <<>> when not)
    thrown,         \* the error a render of MultiPlatePreview raised ("none": none)
    previewRef,     \* PreviewPanel: previewRef.current is a DOM node
    exportRuns,     \* history: the invocations of handleExportPng, in click order
    unit,           \* App state `unit`: "cm" | "in"
    form            \* PlateItem state of the field committed last: the text typed,
                    \* the text it shows now (wInput / hInput), its error (wErr / hErr)

previewVars == <<mounted, clientWidth, clientHeight, scaleX, scaleY, rafPending, rafId,
                 effectT, computed, frameH>>
listVars == <<storage, nextId, everIds, ops, lastOp>>
propVars == <<isArray, thrown>>
exportVars == <<previewRef, exportRuns>>
formVars == <<unit, form>>
appVars == <<listVars, propVars, exportVars, formVars>>
vars == <<HEIGHT_MAX, plates, previewVars, appVars>>

----------------------------------------------------------------------------
(* Bounds of the model *)

\* longest plates prop the preview is rendered with
MaxPreviewPlates == 2

\* user operations on the plate list in one run of the application
MaxOps == 3

\* the list rows the user touches are the first MaxTouched ones and the last
MaxTouched == 2

\* clicks on the export button in one run of the application
MaxClicks == 3

\* commits (blurs) of width and height fields while the rows are used as a form
MaxCommits == 2

----------------------------------------------------------------------------
(* Exact arithmetic with the IEEE special values *)

Abs(a) == IF a < 0 THEN -a ELSE a

Sgn(a) == IF a < 0 THEN -1 ELSE IF a > 0 THEN 1 ELSE 0

RECURSIVE GCD(_, _)
GCD(a, b) == IF b = 0 THEN a ELSE GCD(b, a % b)

\* n/d in lowest terms with a positive denominator; n/0 is +Infinity, -Infinity
\* or NaN by the sign of n
Q(n, d) ==
    IF d = 0 THEN <<Sgn(n), 0>>
    ELSE LET g == GCD(Abs(n), Abs(d)) IN <<(Sgn(d) * n) \div g, Abs(d) \div g>>

R(n) == <<n, 1>>

NaN == <<0, 0>>

Infinity == <<1, 0>>

NegInfinity == <<-1, 0>>

IsNaN(x) == x = NaN

\* Number.isFinite
IsFinite(x) == x[2] # 0

RAdd(a, b) ==
    IF IsNaN(a) \/ IsNaN(b) THEN NaN
    ELSE IF ~IsFinite(a) /\ ~IsFinite(b) THEN (IF a = b THEN a ELSE NaN)
    ELSE IF ~IsFinite(a) THEN a
    ELSE IF ~IsFinite(b) THEN b
    ELSE Q(a[1] * b[2] + b[1] * a[2], a[2] * b[2])

RMul(a, b) == Q(a[1] * b[1], a[2] * b[2])

\* 1 / b
Recip(b) ==
    IF b[1] = 0 THEN (IF b[2] = 0 THEN NaN ELSE Infinity)
    ELSE IF b[1] < 0 THEN <<-b[2], -b[1]>> ELSE <<b[2], b[1]>>

RDiv(a, b) == RMul(a, Recip(b))

\* a <= b, false when either is NaN
RLe(a, b) ==
    /\ ~IsNaN(a)
    /\ ~IsNaN(b)
    /\ IF ~IsFinite(a) /\ ~IsFinite(b) THEN a[1] <= b[1] ELSE a[1] * b[2] <= b[1] * a[2]

\* a < b, false when either is NaN
RLt(a, b) ==
    /\ ~IsNaN(a)
    /\ ~IsNaN(b)
    /\ IF ~IsFinite(a) /\ ~IsFinite(b) THEN a[1] < b[1] ELSE a[1] * b[2] < b[1] * a[2]

\* Math.min / Math.max on two numbers: NaN when either is NaN
MathMin(a, b) == IF IsNaN(a) \/ IsNaN(b) THEN NaN ELSE IF RLe(a, b) THEN a ELSE b

MathMax(a, b) == IF IsNaN(a) \/ IsNaN(b) THEN NaN ELSE IF RLe(a, b) THEN b ELSE a

\* Math.round: the nearest integer, halves rounded up (towards +infinity)
MathRound(x) == IF IsFinite(x) THEN R((2 * x[1] + x[2]) \div (2 * x[2])) ELSE x

\* Math.ceil
MathCeil(x) == IF IsFinite(x) THEN R(-((-x[1]) \div x[2])) ELSE x

\* Math.floor
MathFloor(x) == IF IsFinite(x) THEN R(x[1] \div x[2]) ELSE x

\* Number(v) || 0 : NaN and 0 give 0, every other number itself
NumberOr0(v) == IF IsNaN(v) \/ v = R(0) THEN R(0) ELSE v

----------------------------------------------------------------------------
(* MultiPlatePreview.jsx: derived values *)

MOTIF_WIDTH_CM == 300

\* (Array.isArray(plates) ? plates : []).reduce((s, p) => s + (Number(p?.widthCm) || 0), 0)
\* a null entry of the plates array
Nullish == [null |-> TRUE]

IsNullish(p) == DOMAIN p = {"null"}

\* Number(p?.widthCm), Number(p?.heightCm): NaN for a null entry
OptWidthCm(p) == IF IsNullish(p) THEN NaN ELSE p.widthCm

OptHeightCm(p) == IF IsNullish(p) THEN NaN ELSE p.heightCm

RECURSIVE SumWidthCm(_)
SumWidthCm(ps) ==
    IF ps = <<>> THEN R(0)
    ELSE RAdd(SumWidthCm(SubSeq(ps, 1, Len(ps) - 1)), NumberOr0(OptWidthCm(ps[Len(ps)])))

\* the useMemo totalWidthCm: the reduced sum, or 1 when the sum is falsy (0, NaN)
totalWidthCm(ps) ==
    LET s == SumWidthCm(ps) IN IF IsNaN(s) \/ s = R(0) THEN R(1) ELSE s

\* frameDims.frameW
frameW(ps, sx) == MathMax(R(1), MathRound(RMul(totalWidthCm(ps), sx)))

needMirrorGe(ps) == RLe(R(MOTIF_WIDTH_CM), totalWidthCm(ps))

needMirror(ps) == RLt(R(MOTIF_WIDTH_CM), totalWidthCm(ps))

\* tile.tileW
tileW(sx) == MathMax(R(1), MathRound(RMul(R(MOTIF_WIDTH_CM), sx)))

tileCountFloor(ps, sx) == MathMax(R(1), MathFloor(RDiv(frameW(ps, sx), tileW(sx))))

\* tile.tileCount
tileCount(ps, sx) == MathMax(R(1), MathCeil(RDiv(frameW(ps, sx), tileW(sx))))

\* the length of Array.from({ length: n }): 0 for NaN and for n < 0 (the call
\* throws a RangeError for Infinity, see renderThrows)
ToLength(n) == IF IsFinite(n) /\ n[1] > 0 THEN n[1] ELSE 0

\* the tiles of the mirror-tiled strip, by 0-based index idx: [idx, mirrored]
tiles(ps, sx) ==
    [k \in 1..ToLength(tileCount(ps, sx)) |-> [idx |-> k - 1, mirrored |-> (k - 1) % 2 = 1]]

\* the running offset advanced before leftPx is taken: it includes plate i
xCmAtInclusive(ps, i) == SumWidthCm(SubSeq(ps, 1, i))

\* the running offset xCm when plate i (1-based) is reached
xCmAt(ps, i) == SumWidthCm(SubSeq(ps, 1, i - 1))

\* w of a plate never narrower than 2 px
plateWMin2(widthCm, sx) == MathMax(R(2), MathRound(RMul(widthCm, sx)))

plateWUnscaled(widthCm, sx) == MathMax(R(1), MathRound(widthCm))

\* w of a plate: Math.max(1, Math.round(widthCm * scaleX))
plateW(widthCm, sx) == MathMax(R(1), MathRound(RMul(widthCm, sx)))

\* the per-plate boxes of one render, in px
render(ps, sx, sy) ==
    [i \in 1..Len(ps) |->
        LET widthCm == NumberOr0(OptWidthCm(ps[i]))
            heightCm == NumberOr0(OptHeightCm(ps[i]))
        IN [w |-> plateW(widthCm, sx),
            h |-> MathMax(R(1), MathRound(RMul(heightCm, sy))),
            leftPx |-> MathRound(RMul(xCmAt(ps, i), sx)),
            mode |-> IF needMirror(ps) THEN "tiled" ELSE "stretched"]]

\* what rendering the plates prop raises: plates.map on a value that is not an
\* array, p.id on a null entry, Array.from({ length: Infinity }) in a tiled plate
renderThrows(isArr, ps, sx) ==
    IF ~isArr THEN "TypeError"
    ELSE IF \E i \in 1..Len(ps) : IsNullish(ps[i]) THEN "TypeError"
    ELSE IF ps # <<>> /\ needMirror(ps) /\ tileCount(ps, sx) = Infinity THEN "RangeError"
    ELSE "none"

----------------------------------------------------------------------------
(* MultiPlatePreview.jsx: the layout effect *)

NoRun == [ran |-> FALSE, w |-> 0, h |-> 0, t |-> R(0), rel |-> "first"]

\* the record of a run of compute() that measured w x h with total width t;
\* rel relates its inputs to those of the run before it
RunOf(w, h, t) ==
    [ran |-> TRUE, w |-> w, h |-> h, t |-> t,
     rel |-> IF ~computed.ran THEN "first"
             ELSE IF computed.w # w \/ computed.h # h THEN "resized"
             ELSE IF computed.t = t THEN "same"
             ELSE IF RLt(computed.t, t) THEN "wider" ELSE "narrower"]

\* compute() reading the scaleY state instead of the local vScale
computeStaleY(t) ==
    IF ~mounted' THEN UNCHANGED <<scaleX, scaleY, computed>>
    ELSE LET boxW == IF clientWidth' > 1 THEN clientWidth' ELSE 1
             boxH == IF clientHeight' > 1 THEN clientHeight' ELSE 1
             vScale == RDiv(R(boxH), R(HEIGHT_MAX))
             hScale == RDiv(R(boxW), MathMax(R(1), t))
         IN /\ scaleY' = vScale
            /\ scaleX' = MathMin(scaleY, hScale)
            /\ computed' = RunOf(clientWidth', clientHeight', t)

\* compute() with the horizontal ratio inverted
computeInverted(t) ==
    IF ~mounted' THEN UNCHANGED <<scaleX, scaleY, computed>>
    ELSE LET boxW == IF clientWidth' > 1 THEN clientWidth' ELSE 1
             boxH == IF clientHeight' > 1 THEN clientHeight' ELSE 1
             vScale == RDiv(R(boxH), R(HEIGHT_MAX))
             hScale == RDiv(MathMax(R(1), t), R(boxW))
         IN /\ scaleY' = vScale
            /\ scaleX' = MathMin(vScale, hScale)
            /\ computed' = RunOf(clientWidth', clientHeight', t)

\* compute() taking the larger of the two scales
computeMax(t) ==
    IF ~mounted' THEN UNCHANGED <<scaleX, scaleY, computed>>
    ELSE LET boxW == IF clientWidth' > 1 THEN clientWidth' ELSE 1
             boxH == IF clientHeight' > 1 THEN clientHeight' ELSE 1
             vScale == RDiv(R(boxH), R(HEIGHT_MAX))
             hScale == RDiv(R(boxW), MathMax(R(1), t))
         IN /\ scaleY' = vScale
            /\ scaleX' = MathMax(vScale, hScale)
            /\ computed' = RunOf(clientWidth', clientHeight', t)

\* compute(): measures the container as it is after the step and sets the scale
\* state; t is the totalWidthCm of the render whose effect created the closure
compute(t) ==
    IF ~mounted' THEN UNCHANGED <<scaleX, scaleY, computed>>
    ELSE LET boxW == IF clientWidth' > 1 THEN clientWidth' ELSE 1
             boxH == IF clientHeight' > 1 THEN clientHeight' ELSE 1
             vScale == RDiv(R(boxH), R(HEIGHT_MAX))
             hScale == RDiv(R(boxW), MathMax(R(1), t))
         IN /\ scaleY' = vScale
            /\ scaleX' = MathMin(vScale, hScale)
            /\ computed' = RunOf(clientWidth', clientHeight', t)

\* the id requestAnimationFrame returns: one no scheduled callback has
FreshRafId(q) ==
    CHOOSE n \in 1..(Cardinality(q) + 1) :
        /\ \A cb \in q : cb.id # n
        /\ \A m \in 1..(n - 1) : \E cb \in q : cb.id = m

\* requestAnimationFrame(compute) from a closure that captured total width t
requestAnimationFrame(q, t) == q \cup {[id |-> FreshRafId(q), t |-> t]}

\* cancelAnimationFrame(id): no effect when id is undefined or already ran
cancelAnimationFrame(q, id) == {cb \in q : cb.id # id}

\* the effect body with total width t, run on the callbacks q left by the
\* cleanup before it: compute now, listen to resize, one more frame
RunEffect(q, t) ==
    /\ compute(t)
    /\ effectT' = t
    /\ rafId' = FreshRafId(q)
    /\ rafPending' = requestAnimationFrame(q, t)

\* frameDims.frameH after a render: the useMemo callback runs again only when
\* totalWidthCm or scaleX differ from those of the render before, and reads
\* the height of the ref's element, 360 while the ref is not attached
frameDimsH(el, depsChanged) ==
    IF depsChanged THEN (IF el THEN clientHeight' ELSE 360) ELSE frameH

\* first commit: the first render finds no element behind the ref, then the
\* ref is attached, the effect runs and the scale it set is rendered
Mount ==
    /\ ~mounted
    /\ mounted' = TRUE
    /\ UNCHANGED <<HEIGHT_MAX, plates, clientWidth, clientHeight, appVars>>
    /\ RunEffect(rafPending, totalWidthCm(plates))
    /\ frameH' = IF scaleX' # scaleX THEN frameDimsH(TRUE, TRUE) ELSE frameDimsH(FALSE, TRUE)

\* unmount whose cleanup removes the listener but leaves the frame scheduled
UnmountNoCancel ==
    /\ mounted
    /\ mounted' = FALSE
    /\ rafId' = 0
    /\ effectT' = R(0)
    /\ scaleX' = R(1)
    /\ scaleY' = R(1)
    /\ computed' = NoRun
    /\ frameH' = 360
    /\ UNCHANGED <<HEIGHT_MAX, plates, clientWidth, clientHeight, rafPending, appVars>>

\* unmount: the effect cleanup removes the listener and cancels the frame; the
\* component state is dropped (a later mount starts from useState(1) again)
Unmount ==
    /\ mounted
    /\ mounted' = FALSE
    /\ rafPending' = cancelAnimationFrame(rafPending, rafId)
    /\ rafId' = 0
    /\ effectT' = R(0)
    /\ scaleX' = R(1)
    /\ scaleY' = R(1)
    /\ computed' = NoRun
    /\ frameH' = 360
    /\ UNCHANGED <<HEIGHT_MAX, plates, clientWidth, clientHeight, appVars>>

\* onResize that requests a frame without cancelling the one it requested before
onResizeNoCancel(w, h) ==
    /\ clientWidth' = w
    /\ clientHeight' = h
    /\ IF mounted
       THEN /\ rafId' = FreshRafId(rafPending)
            /\ rafPending' = requestAnimationFrame(rafPending, effectT)
       ELSE UNCHANGED <<rafId, rafPending>>
    /\ UNCHANGED <<HEIGHT_MAX, plates, mounted, scaleX, scaleY, effectT, computed, frameH,
                   appVars>>

\* the window is resized to give the container w x h; onResize (when the
\* listener is attached) cancels the pending frame and requests a new one
onResize(w, h) ==
    /\ clientWidth' = w
    /\ clientHeight' = h
    /\ IF mounted
       THEN /\ rafId' = FreshRafId(cancelAnimationFrame(rafPending, rafId))
            /\ rafPending' = requestAnimationFrame(cancelAnimationFrame(rafPending, rafId), effectT)
       ELSE UNCHANGED <<rafId, rafPending>>
    /\ UNCHANGED <<HEIGHT_MAX, plates, mounted, scaleX, scaleY, effectT, computed, frameH,
                   appVars>>

\* an animation frame: a scheduled callback runs compute from its closure,
\* and the scale it set is rendered
Frame ==
    \E cb \in rafPending :
        /\ rafPending' = rafPending \ {cb}
        /\ UNCHANGED <<HEIGHT_MAX, plates, mounted, clientWidth, clientHeight, rafId, effectT,
                       appVars>>
        /\ compute(cb.t)
        /\ frameH' = frameDimsH(mounted, scaleX' # scaleX)

\* a re-render whose effect does not depend on totalWidthCm: it never re-runs
RerenderNoEffect(next) ==
    /\ next # plates
    /\ plates' = next
    /\ UNCHANGED <<HEIGHT_MAX, mounted, clientWidth, clientHeight, appVars>>
    /\ UNCHANGED <<scaleX, scaleY, computed, rafPending, rafId, effectT>>
    /\ frameH' = IF mounted
                 THEN frameDimsH(TRUE, totalWidthCm(next) # totalWidthCm(plates))
                 ELSE frameH

\* the parent renders the preview with a new plates prop; when totalWidthCm
\* changed the effect is torn down (cleanup) and run again
Rerender(next) ==
    /\ next # plates
    /\ plates' = next
    /\ UNCHANGED <<HEIGHT_MAX, mounted, clientWidth, clientHeight, appVars>>
    /\ IF mounted /\ totalWidthCm(next) # totalWidthCm(plates)
       THEN RunEffect(cancelAnimationFrame(rafPending, rafId), totalWidthCm(next))
       ELSE UNCHANGED <<scaleX, scaleY, computed, rafPending, rafId, effectT>>
    /\ frameH' = IF mounted
                 THEN frameDimsH(TRUE, totalWidthCm(next) # totalWidthCm(plates))
                 ELSE frameH

----------------------------------------------------------------------------
(* The preview on its own: any plates prop, any container *)

\* HEIGHT_MAX of constants/limits.js
HeightMaxValues == {128, 220}

ContainerWidths == {1, 25, 800}

ContainerHeights == {0, 360}

\* widthCm values a plate record may carry: absent/NaN, 0, below 1, in range, negative
WidthValues == {NaN, R(0), Q(1, 2), R(100), R(300), R(-100)}

HeightValues == {R(64)}

NoStorage == [primary |-> <<>>, legacy |-> <<>>]

\* a plate as the preview receives it; the id is its key only
PreviewPlate(i, w, h) == [id |-> i, widthCm |-> w, heightCm |-> h, motifUrl |-> "default"]

\* the plates props one edit away from ps: a plate appended, the last plate
\* removed, one plate's width or height replaced
EditsWith(ps, widths, heights) ==
    {Append(ps, PreviewPlate(Len(ps) + 1, w, h)) :
        <<w, h>> \in IF Len(ps) < MaxPreviewPlates THEN widths \X heights ELSE {}}
    \cup {SubSeq(ps, 1, Len(ps) - 1) : x \in IF ps = <<>> THEN {} ELSE {0}}
    \cup {[ps EXCEPT ![i].widthCm = w] : <<i, w>> \in (1..Len(ps)) \X widths}
    \cup {[ps EXCEPT ![i].heightCm = h] : <<i, h>> \in (1..Len(ps)) \X heights}

EditsOf(ps) == EditsWith(ps, WidthValues, HeightValues)

InitPreview ==
    /\ HEIGHT_MAX \in HeightMaxValues
    /\ plates = <<>>
    /\ mounted = FALSE
    /\ clientWidth \in ContainerWidths
    /\ clientHeight \in ContainerHeights
    /\ scaleX = R(1)
    /\ scaleY = R(1)
    /\ rafPending = {}
    /\ rafId = 0
    /\ effectT = R(0)
    /\ computed = NoRun
    /\ frameH = 360
    /\ storage = NoStorage
    /\ nextId = 1
    /\ everIds = {}
    /\ ops = 0
    /\ lastOp = "init"
    /\ isArray = TRUE
    /\ thrown = "none"
    /\ previewRef = TRUE
    /\ exportRuns = <<>>
    /\ unit = "cm"
    /\ form = [row |-> 0, field |-> "none", typed |-> <<"text", NaN>>,
               input |-> <<"text", NaN>>, err |-> ""]

NextPreview ==
    \/ Mount
    \/ Unmount
    \/ \E w \in ContainerWidths, h \in ContainerHeights : onResize(w, h)
    \/ Frame
    \/ \E next \in EditsOf(plates) : Rerender(next)

SpecPreview == InitPreview /\ [][NextPreview]_vars

\* widthCm values of the plates while the preview settles: in range, wide
SettleWidthValues == {R(100), R(300)}

NextSettle ==
    \/ Mount
    \/ Unmount
    \/ \E w \in ContainerWidths, h \in ContainerHeights : onResize(w, h)
    \/ Frame
    \/ \E next \in EditsWith(plates, SettleWidthValues, HeightValues) : Rerender(next)

\* the browser runs a scheduled animation frame callback unless it is cancelled
SpecPreviewFair == InitPreview /\ [][NextSettle]_vars /\ WF_vars(Frame)

----------------------------------------------------------------------------
(* The preview given any plates prop: not an array, null entries, dimensions
   that are absent, non-numeric or not finite *)

PropWidthValues == {NaN, R(100), Infinity, NegInfinity}

PropHeightValues == {NaN, R(64), Infinity}

\* the plates props the parent may pass next, as <<Array.isArray, array>>: an
\* edit of the array, a null entry appended, a value that is not an array
PropsAfter(ps) ==
    {<<TRUE, next>> : next \in EditsWith(ps, PropWidthValues, PropHeightValues)}
    \cup {<<TRUE, Append(ps, Nullish)>> : x \in IF Len(ps) < MaxPreviewPlates THEN {0} ELSE {}}
    \cup {<<FALSE, <<>>>>}

\* the parent renders the mounted preview with the plates prop next: the
\* render with the scale state as it is, then the effect when totalWidthCm
\* changed and the render with the scale it set.  A render that throws takes
\* the React tree down (there is no error boundary).
RenderProps(isArr, next) ==
    /\ mounted
    /\ <<isArr, next>> # <<isArray, plates>>
    /\ plates' = next
    /\ isArray' = isArr
    /\ UNCHANGED <<HEIGHT_MAX, clientWidth, clientHeight, listVars, exportVars, formVars>>
    /\ IF renderThrows(isArr, next, scaleX) # "none"
       THEN /\ thrown' = renderThrows(isArr, next, scaleX)
            /\ mounted' = FALSE
            /\ rafPending' = cancelAnimationFrame(rafPending, rafId)
            /\ UNCHANGED <<scaleX, scaleY, computed, rafId, effectT, frameH>>
       ELSE /\ mounted' = TRUE
            /\ IF totalWidthCm(next) # totalWidthCm(plates)
               THEN RunEffect(cancelAnimationFrame(rafPending, rafId), totalWidthCm(next))
               ELSE UNCHANGED <<scaleX, scaleY, computed, rafPending, rafId, effectT>>
            /\ frameH' = frameDimsH(TRUE, totalWidthCm(next) # totalWidthCm(plates))
            /\ thrown' = renderThrows(isArr, next, scaleX')

\* no render has thrown: the React tree is up
Alive == thrown = "none"

NextProps ==
    \/ Alive /\ Mount
    \/ \E w \in ContainerWidths, h \in ContainerHeights : Alive /\ onResize(w, h)
    \/ Alive /\ Frame
    \/ \E pr \in PropsAfter(plates) : Alive /\ RenderProps(pr[1], pr[2])

SpecProps == InitPreview /\ [][NextProps]_vars

----------------------------------------------------------------------------
(* App.jsx: the plate list, its hydration and its operations *)

\* the add/remove limits of addPlate and removePlate
MAX_PLATES == 10

MIN_PLATES == 1

DEFAULT_MOTIF_URL == "DEFAULT_MOTIF_URL"

\* constants/config.js
DEFAULT_PLATE == [widthCm |-> R(250), heightCm |-> R(128)]

NEW_PLATE == [widthCm |-> R(100), heightCm |-> R(90)]

\* motif strings the uploader hands to onChange: a pasted URL, a DataURL of a
\* file, and a pasted string that is neither
MotifInputs == {"https://cdn/a.png", "data:image/png;base64,AA", "motif.png"}

\* p.motifUrl.startsWith("http") || p.motifUrl.startsWith("data:")
startsWithHttpOrData(url) == url \in {"https://cdn/a.png", "data:image/png;base64,AA"}

\* withId: { ...p, id: crypto.randomUUID(), motifUrl: DEFAULT_MOTIF_URL }
withId(p, uuid) ==
    [id |-> uuid, widthCm |-> p.widthCm, heightCm |-> p.heightCm,
     motifUrl |-> DEFAULT_MOTIF_URL]

ensureMotif(list) ==
    [i \in 1..Len(list) |->
        [list[i] EXCEPT !.motifUrl =
            IF startsWithHttpOrData(list[i].motifUrl) THEN list[i].motifUrl
            ELSE DEFAULT_MOTIF_URL]]

\* the useState initialiser of plates: the stored list when it is a non-empty
\* array, else the legacy single plate, else the two default plates; uuid is
\* the first id crypto.randomUUID() returns
hydrate(st, uuid) ==
    IF st.primary # <<>> THEN ensureMotif(st.primary)
    ELSE IF st.legacy # <<>>
         THEN ensureMotif(<<withId([widthCm |-> IF IsFinite(st.legacy[1].widthCm)
                                                THEN st.legacy[1].widthCm
                                                ELSE DEFAULT_PLATE.widthCm,
                                     heightCm |-> IF IsFinite(st.legacy[1].heightCm)
                                                 THEN st.legacy[1].heightCm
                                                 ELSE DEFAULT_PLATE.heightCm,
                                     motifUrl |-> st.legacy[1].motifUrl], uuid)>>)
         ELSE ensureMotif(<<withId(DEFAULT_PLATE, uuid), withId(NEW_PLATE, uuid + 1)>>)

\* the branch the initialiser took, as its log message tells
hydratePath(st) ==
    IF st.primary # <<>> THEN "Hydrated plates from STORAGE_KEY_PLATES"
    ELSE IF st.legacy # <<>> THEN "Found legacy single plate storage"
    ELSE "Using default plates"

\* the persist effect: localStorage.setItem(STORAGE_KEY_PLATES, JSON.stringify(plates));
\* the numbers and strings of a plate are written as they are
persist(st, ps) == [st EXCEPT !.primary = ps]

IdSet(ps) == {ps[i].id : i \in 1..Len(ps)}

\* what follows every setPlates: the list is persisted, the operation counted
setPlates(op, next, fresh) ==
    /\ ops < MaxOps
    /\ ops' = ops + 1
    /\ lastOp' = op
    /\ plates' = next
    /\ storage' = persist(storage, next)
    /\ nextId' = nextId + fresh
    /\ everIds' = everIds \cup IdSet(next)
    /\ UNCHANGED <<HEIGHT_MAX, previewVars, propVars, exportVars>>

\* a setPlates from outside the list rows: the row fields stay as they are
Committed(op, next, fresh) == setPlates(op, next, fresh) /\ UNCHANGED formVars

\* addPlate giving the new plate its position in the list as id
addPlateIdFromLength ==
    IF Len(plates) >= MAX_PLATES THEN Committed("addPlate", plates, 0)
    ELSE Committed("addPlate", Append(plates, withId(NEW_PLATE, Len(plates) + 1)), 1)

addPlate ==
    IF Len(plates) >= MAX_PLATES THEN Committed("addPlate", plates, 0)
    ELSE Committed("addPlate", Append(plates, withId(NEW_PLATE, nextId)), 1)

\* prev.filter((p) => p.id !== id)
filterOutId(prev, id) == SelectSeq(prev, LAMBDA p : p.id # id)

\* removePlate without the guard on the last remaining plate
removePlateUnguarded(id) == Committed("removePlate", filterOutId(plates, id), 0)

removePlate(id) ==
    IF Len(plates) <= MIN_PLATES THEN Committed("removePlate", plates, 0)
    ELSE Committed("removePlate", filterOutId(plates, id), 0)

\* updatePlate whose map merges next into every plate
updatePlateEvery(id, next) ==
    setPlates("updatePlate", [i \in 1..Len(plates) |-> next], 0)

\* prev.map((p) => (p.id === id ? { ...p, ...next } : p)); next carries every
\* field of a plate, so the merge is next
updatePlate(id, next) ==
    setPlates("updatePlate", [i \in 1..Len(plates) |->
                                IF plates[i].id = id THEN next ELSE plates[i]], 0)

\* constants/limits.js (HEIGHT_MAX is the variable of that name)
WIDTH_MIN == 20

WIDTH_MAX == 300

HEIGHT_MIN == 30

CM_PER_IN == Q(254, 100)

\* parseFloat(x.toFixed(2)): x rounded to two decimals
toFixed2(x) == IF IsFinite(x) THEN Q(MathRound(RMul(x, R(100)))[1], 100) ELSE x

cmToUnit(cm, u) == IF u = "in" THEN toFixed2(RDiv(cm, CM_PER_IN)) ELSE toFixed2(cm)

unitToCm(val, u) == IF u = "in" THEN toFixed2(RMul(val, CM_PER_IN)) ELSE toFixed2(val)

\* utils/number.js: a text is <<"text", n>>, n the number it reads as (NaN
\* for a text that is no number); formatNumber writes the text of a number
parseLocaleNumber(text) == text[2]

formatNumber(n) == <<"text", n>>

\* the early returns of commitWidth / commitHeight: error set, input restored,
\* warning logged, onCommit not called
reject(warning, i, field, text, stored, error) ==
    /\ ops < MaxOps
    /\ ops' = ops + 1
    /\ lastOp' = warning
    /\ form' = [row |-> i, field |-> field, typed |-> text,
                input |-> formatNumber(cmToUnit(stored, unit)), err |-> error]
    /\ UNCHANGED <<HEIGHT_MAX, plates, previewVars, storage, nextId, everIds, propVars,
                   exportVars, unit>>

\* the field after onCommit({ ...plate, [field]: nCm }): the error cleared; the
\* refresh effect rewrites the input when the stored value changed
accepted(i, field, text, stored, nCm) ==
    /\ unit' = unit
    /\ form' = [row |-> i, field |-> field, typed |-> text,
                input |-> IF nCm # stored THEN formatNumber(cmToUnit(nCm, unit)) ELSE text,
                err |-> ""]

\* commitWidth comparing the number as typed, not converted to cm, with the limits
commitWidthUnconverted(i, text) ==
    LET nUnit == parseLocaleNumber(text)
        nCm == unitToCm(nUnit, unit)
    IN IF ~IsFinite(nUnit)
       THEN reject("PlateItem: non-numeric width", i, "widthCm", text, plates[i].widthCm,
                   "Bitte Zahl eingeben.")
       ELSE IF RLt(nUnit, R(WIDTH_MIN)) \/ RLt(R(WIDTH_MAX), nUnit)
       THEN reject("PlateItem: width out of range", i, "widthCm", text, plates[i].widthCm,
                   "Erlaubt WIDTH_MIN-WIDTH_MAX")
       ELSE /\ updatePlate(plates[i].id, [plates[i] EXCEPT !.widthCm = nCm])
            /\ accepted(i, "widthCm", text, plates[i].widthCm, nCm)

\* PlateItem commitWidth of row i (blur of the width field holding text),
\* through the onCommit wiring of PlateListDnd
commitWidth(i, text) ==
    LET nUnit == parseLocaleNumber(text)
        nCm == unitToCm(nUnit, unit)
    IN IF ~IsFinite(nUnit)
       THEN reject("PlateItem: non-numeric width", i, "widthCm", text, plates[i].widthCm,
                   "Bitte Zahl eingeben.")
       ELSE IF RLt(nCm, R(WIDTH_MIN)) \/ RLt(R(WIDTH_MAX), nCm)
       THEN reject("PlateItem: width out of range", i, "widthCm", text, plates[i].widthCm,
                   "Erlaubt WIDTH_MIN-WIDTH_MAX")
       ELSE /\ updatePlate(plates[i].id, [plates[i] EXCEPT !.widthCm = nCm])
            /\ accepted(i, "widthCm", text, plates[i].widthCm, nCm)

\* PlateItem commitHeight of row i
commitHeight(i, text) ==
    LET nUnit == parseLocaleNumber(text)
        nCm == unitToCm(nUnit, unit)
    IN IF ~IsFinite(nUnit)
       THEN reject("PlateItem: non-numeric height", i, "heightCm", text, plates[i].heightCm,
                   "Bitte Zahl eingeben.")
       ELSE IF RLt(nCm, R(HEIGHT_MIN)) \/ RLt(R(HEIGHT_MAX), nCm)
       THEN reject("PlateItem: height out of range", i, "heightCm", text, plates[i].heightCm,
                   "Erlaubt HEIGHT_MIN-HEIGHT_MAX")
       ELSE /\ updatePlate(plates[i].id, [plates[i] EXCEPT !.heightCm = nCm])
            /\ accepted(i, "heightCm", text, plates[i].heightCm, nCm)

\* wInput / hInput of row i: what the refresh effect wrote for the stored
\* value in the unit shown, or what the last commit left in the field
inputOf(i, field) ==
    IF form.row = i /\ form.field = field THEN form.input
    ELSE formatNumber(cmToUnit(plates[i][field], unit))

\* the unit toggle: setUnit; the refresh effects of the rows rewrite the
\* inputs in the new unit and clear the errors
setUnit(u) ==
    /\ unit # u
    /\ unit' = u
    /\ form' = IF form.row = 0 THEN form
               ELSE [form EXCEPT !.input = formatNumber(cmToUnit(plates[form.row][form.field], u)),
                                 !.err = ""]
    /\ UNCHANGED <<HEIGHT_MAX, plates, previewVars, listVars, propVars, exportVars>>

\* array.splice(start, 1): the array without its element at start
spliceOut(array, start) ==
    [k \in 1..(Len(array) - 1) |-> IF k < start THEN array[k] ELSE array[k + 1]]

\* array.splice(start, 0, item): the array with item inserted at start
spliceIn(array, start, item) ==
    [k \in 1..(Len(array) + 1) |->
        IF k < start THEN array[k] ELSE IF k = start THEN item ELSE array[k - 1]]

\* reorder with `const result = list`: the splices work on the argument itself
reorderArraysInPlace(list, startIndex, endIndex) ==
    [list |-> spliceIn(spliceOut(list, startIndex), endIndex, list[startIndex]),
     result |-> spliceIn(spliceOut(list, startIndex), endIndex, list[startIndex]),
     returned |-> "list"]

\* PlateListDnd reorder(list, startIndex, endIndex), indices 1-based here: the
\* two array objects when it returns (the argument `list` and the copy
\* `result` made by Array.from, which alone is spliced) and which one it returns
reorderArrays(list, startIndex, endIndex) ==
    [list |-> list,
     result |-> spliceIn(spliceOut(list, startIndex), endIndex, list[startIndex]),
     returned |-> "result"]

\* reorder exchanging the plates at the two indices
reorderSwap(list, startIndex, endIndex) ==
    [list EXCEPT ![startIndex] = list[endIndex], ![endIndex] = list[startIndex]]

\* the value reorder returns
reorder(list, startIndex, endIndex) ==
    reorderArrays(list, startIndex, endIndex)[reorderArrays(list, startIndex, endIndex).returned]

\* onDragEnd with source index s and destination d (0: dropped outside);
\* handleReorder sets the list it is given
onDragEnd(s, d) ==
    IF d = 0 \/ d = s
    THEN Committed("onDragEnd", plates, 0)
    ELSE Committed("handleReorder", reorder(plates, s, d), 0)

\* plates[0]?.motifUrl || DEFAULT_MOTIF_URL: the motif the uploader and the
\* preview are given
currentMotif(ps) ==
    IF Len(ps) > 0 /\ ps[1].motifUrl # "" THEN ps[1].motifUrl ELSE DEFAULT_MOTIF_URL

setMotifForAll(url) ==
    Committed("setMotifForAll", [i \in 1..Len(plates) |-> [plates[i] EXCEPT !.motifUrl = url]], 0)

resetMotif ==
    Committed("resetMotif",
              [i \in 1..Len(plates) |-> [plates[i] EXCEPT !.motifUrl = DEFAULT_MOTIF_URL]], 0)

\* a list the persist effect wrote: k plates with ids 1..k and one motif
storedList(k, motif) ==
    [i \in 1..k |-> [id |-> i, widthCm |-> DEFAULT_PLATE.widthCm,
                     heightCm |-> DEFAULT_PLATE.heightCm, motifUrl |-> motif]]

\* a legacy single-plate record: a width, no usable height, a motif URL
LegacyPlate == [widthCm |-> R(100), heightCm |-> NaN, motifUrl |-> "https://cdn/a.png"]

\* localStorage when the application starts: empty, a legacy plate only, a
\* stored list of 1, 9, 10 or 11 plates, a stored list and a legacy plate
StoredContents ==
    {NoStorage}
    \cup {[primary |-> <<>>, legacy |-> <<LegacyPlate>>]}
    \cup {[primary |-> storedList(k, m), legacy |-> <<>>] :
            k \in {MIN_PLATES, MAX_PLATES - 1, MAX_PLATES, MAX_PLATES + 1},
            m \in {"https://cdn/a.png"}}
    \cup {[primary |-> storedList(MIN_PLATES + 1, DEFAULT_MOTIF_URL), legacy |-> <<LegacyPlate>>]}

\* the ids of a stored list come first; crypto.randomUUID() returns ids after them
FirstUuid(st) == Len(st.primary) + 1

\* the list rows the user acts on
Touched == {i \in 1..Len(plates) : i <= MaxTouched \/ i = Len(plates)}

InitApp ==
    /\ HEIGHT_MAX = 128
    /\ \E st \in StoredContents :
        /\ plates = hydrate(st, FirstUuid(st))
        /\ storage = persist(st, plates)
        /\ nextId = IF st.primary # <<>> THEN FirstUuid(st)
                    ELSE IF st.legacy # <<>> THEN FirstUuid(st) + 1
                    ELSE FirstUuid(st) + 2
        /\ lastOp = hydratePath(st)
    /\ everIds = IdSet(plates)
    /\ ops = 0
    /\ mounted = FALSE
    /\ clientWidth = 800
    /\ clientHeight = 360
    /\ scaleX = R(1)
    /\ scaleY = R(1)
    /\ rafPending = {}
    /\ rafId = 0
    /\ effectT = R(0)
    /\ computed = NoRun
    /\ frameH = 360
    /\ isArray = TRUE
    /\ thrown = "none"
    /\ previewRef = TRUE
    /\ exportRuns = <<>>
    /\ unit = "cm"
    /\ form = [row |-> 0, field |-> "none", typed |-> <<"text", NaN>>,
               input |-> <<"text", NaN>>, err |-> ""]

NextApp ==
    \/ addPlate
    \/ \E i \in Touched : removePlate(plates[i].id)
    \/ \E i \in Touched : commitWidth(i, formatNumber(R(150)))
    \/ \E i \in Touched : commitHeight(i, formatNumber(R(64)))
    \/ \E s \in Touched, d \in Touched \cup {0} : onDragEnd(s, d)
    \/ \E url \in MotifInputs : setMotifForAll(url)
    \/ resetMotif

SpecApp == InitApp /\ [][NextApp]_vars

----------------------------------------------------------------------------
(* The list rows as a form: any text, either unit *)

\* what the user types into a width or height field: no number, numbers below,
\* inside and above the limits in cm, 7,87 (in: 19.99 cm) and 10 (in: 25.4 cm)
FormTexts ==
    {formatNumber(n) : n \in {NaN, R(10), Q(787, 100), R(64), R(150), R(301)}}

NextForm ==
    \/ \E u \in {"cm", "in"} : setUnit(u)
    \/ \E i \in Touched, text \in FormTexts : ops < MaxCommits /\ commitWidth(i, text)
    \/ \E i \in Touched, text \in FormTexts : ops < MaxCommits /\ commitHeight(i, text)
    \/ \E i \in Touched : ops < MaxCommits /\ commitWidth(i, inputOf(i, "widthCm"))
    \/ \E i \in Touched : ops < MaxCommits /\ commitHeight(i, inputOf(i, "heightCm"))

SpecForm == InitApp /\ [][NextForm]_vars

----------------------------------------------------------------------------
(* PreviewPanel: PNG export *)

\* what the call exportNodeToPng(node, name) does: returns a promise that is
\* still pending, or throws before it returns one
ExportCalls == {"pending", "throws"}

\* how a pending export promise settles
ExportSettlements == {"resolve", "reject"}

\* one invocation of handleExportPng: whether previewRef.current was a node
\* when it started, where it is, how often it called exportNodeToPng, what it
\* logged and whether an error left the handler
ExportRun(node, phase, cause, calls, errors, infos) ==
    [node |-> node, phase |-> phase, cause |-> cause, calls |-> calls, errors |-> errors,
     infos |-> infos, propagated |-> FALSE]

\* handleExportPng calling exportNodeToPng without looking at previewRef.current
handleExportPngUnguarded(call) ==
    /\ Len(exportRuns) < MaxClicks
    /\ exportRuns' = Append(exportRuns,
            IF call = "throws" \/ ~previewRef
            THEN ExportRun(previewRef, "failed", "threw", 1, 1, 0)
            ELSE ExportRun(previewRef, "awaiting", "none", 1, 0, 0))
    /\ UNCHANGED <<HEIGHT_MAX, plates, previewVars, listVars, propVars, formVars, previewRef>>

\* a click on "PNG exportieren": handleExportPng up to its await or its end
handleExportPng(call) ==
    /\ Len(exportRuns) < MaxClicks
    /\ exportRuns' = Append(exportRuns,
            IF ~previewRef THEN ExportRun(FALSE, "failed", "notReady", 0, 1, 0)
            ELSE IF call = "throws" THEN ExportRun(TRUE, "failed", "threw", 1, 1, 0)
            ELSE ExportRun(TRUE, "awaiting", "none", 1, 0, 0))
    /\ UNCHANGED <<HEIGHT_MAX, plates, previewVars, listVars, propVars, formVars, previewRef>>

\* the promise of invocation i settles: handleExportPng resumes after its await
exportSettles(i, how) ==
    /\ exportRuns[i].phase = "awaiting"
    /\ exportRuns' = [exportRuns EXCEPT ![i] =
            IF how = "resolve" THEN ExportRun(@.node, "completed", "none", @.calls, 0, 1)
            ELSE ExportRun(@.node, "failed", "rejected", @.calls, 1, 0)]
    /\ UNCHANGED <<HEIGHT_MAX, plates, previewVars, listVars, propVars, formVars, previewRef>>

\* the card body is attached to or detached from previewRef
setPreviewRef(node) ==
    /\ previewRef # node
    /\ previewRef' = node
    /\ UNCHANGED <<HEIGHT_MAX, plates, previewVars, listVars, propVars, formVars, exportRuns>>

NextExport ==
    \/ \E call \in ExportCalls : handleExportPng(call)
    \/ \E i \in 1..Len(exportRuns), how \in ExportSettlements : exportSettles(i, how)
    \/ \E node \in BOOLEAN : setPreviewRef(node)

\* the application with its export button
SpecExport == InitApp /\ [][NextExport]_vars

----------------------------------------------------------------------------
(* Claims about the Scale Resolver and the Motif Compositor (SpecPreview) *)

\* the boxes of the current render
boxes == render(plates, scaleX, scaleY)

\* the scale state is the result of compute() for the container and plates as they are
ScaleIsCurrent ==
    /\ mounted
    /\ computed.ran
    /\ computed.w = clientWidth
    /\ computed.h = clientHeight
    /\ computed.t = totalWidthCm(plates)

PositiveInputs == computed.ran /\ computed.w > 0 /\ computed.h > 0 /\ RLt(R(0), computed.t)

\* C1 as stated: after a run of compute() on positive inputs, scaleY is
\* containerHeightPx / HEIGHT_MAX and scaleX is min(scaleY, containerWidthPx /
\* totalWidthCm), also for a positive totalWidthCm below 1.
C1_Unclamped ==
    PositiveInputs =>
        /\ RMul(scaleY, R(HEIGHT_MAX)) = R(computed.h)
        /\ scaleX = MathMin(scaleY, RDiv(R(computed.w), computed.t))

\* C1 amended: after a run of compute() on positive inputs, scaleY is
\* containerHeightPx / HEIGHT_MAX and scaleX is min(scaleY, containerWidthPx /
\* max(1, totalWidthCm)): a total width below 1 cm divides as 1 cm.
C1_ScaleExact ==
    PositiveInputs =>
        /\ RMul(scaleY, R(HEIGHT_MAX)) = R(computed.h)
        /\ scaleX = MathMin(scaleY, RDiv(R(computed.w), MathMax(R(1), computed.t)))

\* C1 witness: compute() ran on a positive container with 0 < totalWidthCm < 1
C1_Witness == PositiveInputs /\ RLt(computed.t, R(1))

\* C2 as stated, for plates at least 1 cm wide in a container of 2 px or more:
\* once the scale is current no plate box ends right of the container's edge.
C2_NoOverflow ==
    (/\ ScaleIsCurrent
     /\ clientWidth > 1
     /\ \A i \in 1..Len(plates) : ~IsNaN(plates[i].widthCm) /\ RLe(R(1), plates[i].widthCm))
    => \A i \in 1..Len(plates) : RLe(RAdd(boxes[i].leftPx, boxes[i].w), R(clientWidth))

\* C3: every plate of a render is tiled exactly when totalWidthCm > 300, so at
\* exactly 300 every plate is stretched, and all plates share one mode.
C3_TilingMode ==
    \A i \in 1..Len(plates) :
        /\ (boxes[i].mode = "tiled") <=> RLt(R(300), totalWidthCm(plates))
        /\ boxes[i].mode \in {"tiled", "stretched"}
        /\ boxes[i].mode = boxes[1].mode

\* C3 witness: a rendered plate set whose total width is exactly 300 cm
C3_Witness ==
    mounted /\ plates # <<>> /\ totalWidthCm(plates) = R(300) /\ boxes[1].mode = "stretched"

\* C4: in tiled mode the tiles cover the frame, one tile fewer would not, and
\* the tile at 0-based index idx is mirrored exactly when idx is odd.
C4_Tiles ==
    needMirror(plates) =>
        LET n == tileCount(plates, scaleX)[1]
            tw == tileW(scaleX)[1]
            fw == frameW(plates, scaleX)[1]
            ts == tiles(plates, scaleX)
        IN /\ n >= 1
           /\ tileCount(plates, scaleX) = MathCeil(<<fw, tw>>)
           /\ tileW(scaleX) = MathMax(R(1), MathRound(RMul(R(300), scaleX)))
           /\ n * tw >= fw
           /\ (n - 1) * tw < fw
           /\ Len(ts) = n
           /\ \A k \in 1..n : ts[k].idx = k - 1 /\ (ts[k].mirrored <=> (ts[k].idx % 2 = 1))

\* C4 witness: a tiled render with at least two tiles, the last one cut by the frame
C4_Witness ==
    /\ ScaleIsCurrent
    /\ needMirror(plates)
    /\ tileCount(plates, scaleX)[1] >= 2
    /\ frameW(plates, scaleX)[1] % tileW(scaleX)[1] # 0

RECURSIVE SumW(_)
SumW(bs) == IF bs = <<>> THEN 0 ELSE SumW(SubSeq(bs, 1, Len(bs) - 1)) + bs[Len(bs)].w[1]

\* C5 as stated, for n >= 1 plates whose widthCm is a non-negative number or
\* invalid: the sum of the rendered widths differs from the frame width by at
\* most n px, at every scale.
C5_AnyPlates ==
    (/\ plates # <<>>
     /\ \A i \in 1..Len(plates) : RLe(R(0), NumberOr0(plates[i].widthCm)))
    => Abs(SumW(boxes) - frameW(plates, scaleX)[1]) <= Len(plates)

\* C5 amended: when every widthCm is a non-negative number or invalid (taken as
\* 0) and at least one is positive, the sum of the rendered widths differs from
\* the frame width by at most n px.
C5_WidthSum ==
    (/\ \A i \in 1..Len(plates) : RLe(R(0), NumberOr0(plates[i].widthCm))
     /\ RLt(R(0), SumWidthCm(plates)))
    => Abs(SumW(boxes) - frameW(plates, scaleX)[1]) <= Len(plates)

\* C5 witness: a computed render of two plates, one of width 0 or invalid, one positive
C5_Witness ==
    /\ ScaleIsCurrent
    /\ Len(plates) = 2
    /\ \E i \in 1..2 : NumberOr0(plates[i].widthCm) = R(0)
    /\ RLt(R(0), SumWidthCm(plates))
    /\ SumW(boxes) # frameW(plates, scaleX)[1]

\* C9: of two successive runs of compute() on the same container size, the one
\* with the larger totalWidthCm has the smaller or equal scaleX, and both have
\* the same scaleY.
C9_Monotone ==
    [][(/\ computed.ran /\ computed'.ran
        /\ computed'.w = computed.w /\ computed'.h = computed.h)
       => /\ RLe(computed.t, computed'.t) => RLe(scaleX', scaleX)
          /\ RLe(computed'.t, computed.t) => RLe(scaleX, scaleX')
          /\ scaleY' = scaleY]_vars

\* C9 witness: compute() re-ran on the same container with a larger total width
\* and the horizontal scale is the one that the width limits
C9_Witness == computed.ran /\ computed.rel = "wider" /\ RLt(scaleX, scaleY)

\* C10: a run of compute() with the same container size and totalWidthCm as
\* the run before it leaves scaleX and scaleY as they were.
C10_Idempotent ==
    [][(computed'.ran /\ computed'.rel = "same")
       => (scaleX' = scaleX /\ scaleY' = scaleY)]_vars

\* C10 witness: compute() ran again on unchanged inputs
C10_Witness == computed.ran /\ computed.rel = "same" /\ rafPending = {}

\* C11 as stated: a step after which the container is mounted with a measured
\* width or height of zero (or that leaves it unmounted) runs no scale
\* computation: scaleX and scaleY keep their prior values.
C11_SkipUnmeasurable ==
    [][((~mounted /\ ~mounted') \/ (mounted' /\ (clientWidth' = 0 \/ clientHeight' = 0)))
       => (scaleX' = scaleX /\ scaleY' = scaleY)]_vars

\* C12: at most one recomputation is scheduled at any time, it is the one the
\* live effect holds in rafId, and none is scheduled for an unmounted preview;
\* so a resize event has cancelled the frame scheduled before it and the next
\* animation frame runs at most one recomputation however many resize events
\* came before it.
C12_Coalesced ==
    /\ Cardinality(rafPending) <= 1
    /\ \A cb \in rafPending : mounted /\ cb.id = rafId /\ cb.t = effectT

\* C12 witness: after the mount (first computation, one more frame requested)
\* a resize event came before any frame ran, and one recomputation is scheduled
C12_Witness ==
    /\ mounted
    /\ computed.ran /\ computed.rel = "first"
    /\ <<computed.w, computed.h>> # <<clientWidth, clientHeight>>
    /\ Cardinality(rafPending) = 1

\* the scale state is the Scale Resolver's result for the container and the
\* plate set as they are now
Settled ==
    LET boxW == IF clientWidth > 1 THEN clientWidth ELSE 1
        boxH == IF clientHeight > 1 THEN clientHeight ELSE 1
    IN /\ scaleY = RDiv(R(boxH), R(HEIGHT_MAX))
       /\ scaleX = MathMin(RDiv(R(boxH), R(HEIGHT_MAX)),
                           RDiv(R(boxW), MathMax(R(1), totalWidthCm(plates))))

\* C13: if from some point on no event occurs (only scheduled frames run), the
\* scale state of a mounted preview eventually equals, and then stays, the
\* result for the last container size and the last plate set.
C13_Settles == <>[][Frame]_vars => <>[](mounted => Settled)

\* C13 witness: a frame scheduled by a resize event ran and left the scale
\* state settled, with nothing scheduled any more
C13_Witness ==
    /\ mounted
    /\ computed.ran /\ computed.rel = "resized"
    /\ rafPending = {}
    /\ Settled

\* the sum of the widths of the first k plates, a width that is no number as 0
RECURSIVE WidthBefore(_, _)
WidthBefore(ps, k) ==
    IF k = 0 THEN R(0)
    ELSE RAdd(WidthBefore(ps, k - 1), IF IsNaN(ps[k].widthCm) THEN R(0) ELSE ps[k].widthCm)

\* C21 as stated: leftPx of the plate at index i is round(scaleX * sum of the
\* widths before it), so it is 0 for the first plate and is the same in the
\* list cut after plate i; and leftPx never decreases along the list.
C21_AnyWidths ==
    \A i \in 1..Len(plates) :
        /\ boxes[i].leftPx = MathRound(RMul(scaleX, WidthBefore(plates, i - 1)))
        /\ i = 1 => boxes[i].leftPx = R(0)
        /\ render(SubSeq(plates, 1, i), scaleX, scaleY)[i].leftPx = boxes[i].leftPx
        /\ i > 1 => RLe(boxes[i - 1].leftPx, boxes[i].leftPx)

\* C21 amended: the same, leftPx never decreasing along the list when no plate
\* has a negative width.
C21_LeftPx ==
    \A i \in 1..Len(plates) :
        /\ boxes[i].leftPx = MathRound(RMul(scaleX, WidthBefore(plates, i - 1)))
        /\ i = 1 => boxes[i].leftPx = R(0)
        /\ render(SubSeq(plates, 1, i), scaleX, scaleY)[i].leftPx = boxes[i].leftPx
        /\ (i > 1 /\ \A k \in 1..(i - 1) : RLe(R(0), NumberOr0(plates[k].widthCm)))
                => RLe(boxes[i - 1].leftPx, boxes[i].leftPx)

\* C21 witness: a computed render of two plates, the second one placed right
\* of the origin
C21_Witness ==
    /\ ScaleIsCurrent
    /\ Len(plates) = 2
    /\ RLt(R(0), boxes[2].leftPx)

\* the widthCm of plate i is a finite number that is not negative
FiniteNonNegative(i) == IsFinite(plates[i].widthCm) /\ RLe(R(0), plates[i].widthCm)

\* leftPx of plate i + 1 minus the right edge (leftPx + widthPx) of plate i, in px
Seam(i) == RAdd(boxes[i + 1].leftPx, RMul(R(-1), RAdd(boxes[i].leftPx, boxes[i].w)))

C30_TornDown ==
    [][/\ ~mounted' => rafPending' = {}
       /\ (~mounted /\ ~mounted') =>
            (scaleX' = scaleX /\ scaleY' = scaleY /\ computed' = computed)
       /\ (mounted /\ mounted' /\ effectT' # effectT) =>
            \A cb \in rafPending' : cb.t = effectT' /\ cb \notin rafPending
       /\ (computed' # computed /\ computed'.ran) =>
            (mounted' /\ computed'.t = effectT' /\ effectT' = totalWidthCm(plates'))]_vars

\* C30 witness: the effect was torn down by a change of totalWidthCm while the
\* container kept its size, the effect that replaced it computed with the new
\* total and its frame is scheduled
C30_Witness ==
    /\ mounted
    /\ computed.ran /\ computed.rel \in {"wider", "narrower"}
    /\ rafPending # {}
    /\ \A cb \in rafPending : cb.t = totalWidthCm(plates)

\* C22: whenever the scale state of a mounted preview has settled for the
\* container and the plates as they are and no frame is pending, the frame
\* height that sizes the motif image and tiles is the measured height of the
\* container (here for a container of positive height).
C22_FrameHeight ==
    (mounted /\ Settled /\ rafPending = {} /\ clientHeight > 0) => frameH = clientHeight

----------------------------------------------------------------------------
(* Claims about the preview given malformed props (SpecProps) *)

\* a dimension the claim calls invalid: absent or non-numeric (NaN) or not finite
Invalid(v) == ~IsFinite(v)

\* the plates with every invalid dimension replaced by 0
Zeroed(ps) ==
    [i \in 1..Len(ps) |->
        [ps[i] EXCEPT !.widthCm = IF Invalid(@) THEN R(0) ELSE @,
                      !.heightCm = IF Invalid(@) THEN R(0) ELSE @]]

\* C14 as stated: a plate whose widthCm or heightCm is absent, non-numeric or
\* not finite counts as 0: the render does not fail, totalWidthCm and every
\* running offset are those of the plates with 0 in its place, and its box is
\* 1 px in that dimension.
C14_InvalidAsZero ==
    /\ thrown \in {"none", "TypeError"}
    /\ thrown = "none" =>
        /\ totalWidthCm(plates) = totalWidthCm(Zeroed(plates))
        /\ \A i \in 1..Len(plates) :
            /\ xCmAt(plates, i) = xCmAt(Zeroed(plates), i)
            /\ Invalid(plates[i].widthCm) => boxes[i].w = R(1)
            /\ Invalid(plates[i].heightCm) => boxes[i].h = R(1)

\* C15 as stated: no render of the preview raises, whatever the plates prop is
\* (an empty list, not a list, a list with null entries); for zero plates
\* totalWidthCm is 1 and the scale state is a finite number.
C15_NeverRaises ==
    /\ thrown = "none"
    /\ plates = <<>> =>
        /\ totalWidthCm(plates) = R(1)
        /\ IsFinite(scaleX) /\ IsFinite(scaleY)

\* C18 as stated: right after start, when the list was migrated from the
\* legacy record it has one plate with the record's widthCm, heightCm and
\* motifUrl (the default for a dimension that is not finite, for a motif that
\* is not an http or data URL); when it was read from the primary key it is
\* the stored list, whatever the legacy record holds.
C18_LegacyMigration ==
    /\ (ops = 0 /\ lastOp = "Found legacy single plate storage") =>
        /\ Len(plates) = 1
        /\ plates[1].widthCm = IF IsFinite(storage.legacy[1].widthCm)
                               THEN storage.legacy[1].widthCm ELSE DEFAULT_PLATE.widthCm
        /\ plates[1].heightCm = IF IsFinite(storage.legacy[1].heightCm)
                                THEN storage.legacy[1].heightCm ELSE DEFAULT_PLATE.heightCm
        /\ plates[1].motifUrl = IF startsWithHttpOrData(storage.legacy[1].motifUrl)
                                THEN storage.legacy[1].motifUrl ELSE DEFAULT_MOTIF_URL
    /\ (ops = 0 /\ lastOp = "Hydrated plates from STORAGE_KEY_PLATES") =>
        plates = ensureMotif(storage.primary)

Others(list, id) == SelectSeq(list, LAMBDA p : p.id # id)

\* C23: a drag that ends on another index d than its source s sets a list of
\* the same records in which the dragged plate is at index d and the other
\* plates keep their relative order; a drag without destination or ending on
\* its source sets nothing new: list and storage stay as they are.
C23_Permutation ==
    [][/\ lastOp' = "handleReorder" =>
            \E s \in 1..Len(plates), d \in 1..Len(plates) :
                /\ s # d
                /\ Len(plates') = Len(plates)
                /\ plates'[d] = plates[s]
                /\ Others(plates', plates[s].id) = Others(plates, plates[s].id)
       /\ lastOp' = "onDragEnd" => (plates' = plates /\ storage' = storage)]_vars

\* C23 witness: the first plate of a list of three or more was dragged to the end
C23_Witness ==
    /\ lastOp = "handleReorder"
    /\ Len(plates) >= 3
    /\ plates[Len(plates)].id < plates[1].id
    /\ plates[1].id < plates[2].id

C25_EditOnly ==
    [][lastOp' = "updatePlate" =>
            /\ Len(plates') = Len(plates)
            /\ \A k \in 1..Len(plates) :
                    IF k # form'.row THEN plates'[k] = plates[k]
                    ELSE /\ plates'[k].id = plates[k].id
                         /\ plates'[k].motifUrl = plates[k].motifUrl
                         /\ form'.field = "widthCm" => plates'[k].heightCm = plates[k].heightCm
                         /\ form'.field = "heightCm" => plates'[k].widthCm = plates[k].widthCm]_vars

\* C25 witness: a width was committed in a list whose plates have two motifs
\* (a plate was added to a list with a custom motif) and were reordered
C25_Witness ==
    /\ lastOp = "updatePlate"
    /\ form.field = "widthCm"
    /\ \E i, j \in 1..Len(plates) : plates[i].motifUrl # plates[j].motifUrl
    /\ \E i \in 1..(Len(plates) - 1) : plates[i].id > plates[i + 1].id
    /\ \E i, j \in 1..Len(plates) : plates[i].widthCm = R(150) /\ plates[j].widthCm # R(150)

\* C27: the motif shown in the preview changes only through setMotifForAll
\* or resetMotif: adding, removing, reordering or editing plates leaves it
\* as it is.
C27_MotifStable ==
    [][lastOp' \notin {"setMotifForAll", "resetMotif"}
            => currentMotif(plates') = currentMotif(plates)]_vars

\* C28: after any sequence of operations, applying a motif string the
\* uploader accepts included, and the persist effect, a reload hydrates a
\* list equal to the current one in ids, order, widthCm, heightCm and motifUrl.
C28_RoundTrip == hydrate(storage, nextId) = plates

----------------------------------------------------------------------------
(* Claims about the list rows (SpecForm) *)

\* the number typed is a number and, in cm, within the limits of the field
ValidEntry(f, u) ==
    /\ IsFinite(parseLocaleNumber(f.typed))
    /\ IF f.field = "widthCm"
       THEN /\ RLe(R(WIDTH_MIN), unitToCm(parseLocaleNumber(f.typed), u))
            /\ RLe(unitToCm(parseLocaleNumber(f.typed), u), R(WIDTH_MAX))
       ELSE /\ RLe(R(HEIGHT_MIN), unitToCm(parseLocaleNumber(f.typed), u))
            /\ RLe(unitToCm(parseLocaleNumber(f.typed), u), R(HEIGHT_MAX))

\* C20: every plate keeps WIDTH_MIN <= widthCm <= WIDTH_MAX and HEIGHT_MIN <=
\* heightCm <= HEIGHT_MAX through width and height commits in either unit; a
\* commit is passed to onCommit exactly when its text is a number within the
\* limits; otherwise the list and the storage stay as they are, the field's
\* error is set and its input shows the stored value again.
C20_Validated ==
    /\ [](\A i \in 1..Len(plates) :
            /\ RLe(R(WIDTH_MIN), plates[i].widthCm) /\ RLe(plates[i].widthCm, R(WIDTH_MAX))
            /\ RLe(R(HEIGHT_MIN), plates[i].heightCm) /\ RLe(plates[i].heightCm, R(HEIGHT_MAX)))
    /\ [][ops' # ops =>
            /\ ValidEntry(form', unit) <=> lastOp' = "updatePlate"
            /\ ValidEntry(form', unit) =>
                /\ plates' = [plates EXCEPT ![form'.row][form'.field] =
                                  unitToCm(parseLocaleNumber(form'.typed), unit)]
                /\ form'.err = ""
            /\ ~ValidEntry(form', unit) =>
                /\ plates' = plates
                /\ storage' = storage
                /\ form'.err # ""
                /\ form'.input = formatNumber(cmToUnit(plates[form'.row][form'.field], unit))]_vars

\* C20 witness: a plate holds a width committed in inches (10 in = 25.4 cm)
\* and the last commit, in inches, was out of range and refused
C20_Witness ==
    /\ unit = "in"
    /\ lastOp \in {"PlateItem: width out of range", "PlateItem: height out of range"}
    /\ form.err # ""
    /\ \E i \in 1..Len(plates) : plates[i].widthCm = Q(254, 10)

\* C29: the display unit is presentation only: a width or height field that
\* is focused and blurred with the text it shows, in either unit, leaves the
\* stored widthCm and heightCm of every plate as they are and raises no
\* validation error.
C29_UnitPresentation ==
    [][(ops' # ops /\ form'.typed = inputOf(form'.row, form'.field))
            => (plates' = plates /\ form'.err = "")]_vars

----------------------------------------------------------------------------
(* Claims about the PNG export (SpecExport) *)

\* C16: an invocation of handleExportPng that failed logged exactly one error
\* and no success, let nothing propagate and called exportNodeToPng at most
\* once (never when the container was not mounted); no invocation calls it
\* twice; and no step of an export changes the plate list or the scale state.
C16_ExportFailure ==
    /\ [](\A i \in 1..Len(exportRuns) :
            /\ exportRuns[i].calls <= 1
            /\ ~exportRuns[i].propagated
            /\ exportRuns[i].phase = "failed" =>
                /\ exportRuns[i].errors = 1
                /\ exportRuns[i].infos = 0
            /\ ~exportRuns[i].node =>
                /\ exportRuns[i].phase = "failed"
                /\ exportRuns[i].calls = 0)
    /\ [][exportRuns' # exportRuns =>
            /\ plates' = plates /\ scaleX' = scaleX /\ scaleY' = scaleY
            /\ \A i \in 1..Len(exportRuns) :
                    exportRuns[i].phase # "awaiting" => exportRuns'[i] = exportRuns[i]]_vars

\* C16 witness: the three failures happened: container not mounted, the export
\* call threw, the export promise rejected
C16_Witness ==
    \A c \in {"notReady", "threw", "rejected"} :
        \E i \in 1..Len(exportRuns) : exportRuns[i].phase = "failed" /\ exportRuns[i].cause = c

\* C17 as stated: at any time at most one invocation of the export is in flight.
C17_OneInFlight ==
    Cardinality({i \in 1..Len(exportRuns) : exportRuns[i].phase = "awaiting"}) <= 1

----------------------------------------------------------------------------
(* Claims about the plate list (SpecApp) *)

\* C6 as stated: in every reachable state, after hydration from any stored
\* content and any sequence of operations, the list has 1 to 10 plates.
C6_ListSize == MIN_PLATES <= Len(plates) /\ Len(plates) <= MAX_PLATES

\* C7 as stated: all plates of the list carry the same motifUrl, so a plate
\* created by addPlate has the motif the set uses.
C7_SameMotif ==
    \A i \in 1..Len(plates) : \A j \in 1..Len(plates) : plates[i].motifUrl = plates[j].motifUrl

IdSeq(ps) == [i \in 1..Len(ps) |-> ps[i].id]

\* C8: ids are unique within the list; an operation gives a plate of the new
\* list either the id of a plate of the old list or an id no plate ever had;
\* edits and motif changes leave the ids in place, reorder keeps the set of
\* ids, add keeps the old ids in front, remove only drops ids.
C8_Ids ==
    /\ [](\A i \in 1..Len(plates) : \A j \in 1..Len(plates) :
            plates[i].id = plates[j].id => i = j)
    /\ [][/\ \A i \in 1..Len(plates') :
                plates'[i].id \in IdSet(plates) \/ plates'[i].id \notin everIds
          /\ lastOp' \in {"updatePlate", "setMotifForAll", "resetMotif", "onDragEnd"}
                => IdSeq(plates') = IdSeq(plates)
          /\ lastOp' = "handleReorder"
                => IdSet(plates') = IdSet(plates) /\ Len(plates') = Len(plates)
          /\ lastOp' = "addPlate"
                => SubSeq(IdSeq(plates'), 1, Len(plates)) = IdSeq(plates)
          /\ lastOp' = "removePlate"
                => IdSet(plates') \subseteq IdSet(plates)]_vars

\* C8 witness: a plate was added after another plate had been removed
C8_Witness ==
    /\ lastOp = "addPlate"
    /\ Len(plates) >= 2
    /\ \E id \in everIds : id \notin IdSet(plates)

====
